---- MODULE Spec2Model ----
(***************************************************************************)
(* A model of the UTSP client (utspclient/client.py and                    *)
(* utspclient/datastructures.py): the request model and its hash, the      *)
(* single HTTP exchange, the polling wait and the batch fan-out/fan-in.    *)
(* Text is modelled as a sequence of one-character strings, so that        *)
(* serialisation is computed character by character.                       *)
(***************************************************************************)
EXTENDS Integers, Sequences, FiniteSets, TLC

\* ---------------------------------------------------------------- bounds
\* largest number of requests handed to calculate_multiple_requests
MaxRequests == 3
\* cap on the submissions made by one polling wait: the server answers the
\* last allowed submission with a terminal status or an error
MaxPolls == 2
\* longest text drawn for a string field of a TimeSeriesRequest
MaxStrLen == 1
\* most entries drawn for a mapping field of a TimeSeriesRequest or for the
\* data of a ResultDelivery
MaxEntries == 2
\* longest content drawn for a result file, in bytes
MaxBytes == 1
\* most method calls made on one ResultDelivery
MaxCalls == 3
\* most calls of send_request a caller makes for one request
MaxSends == 2

\* ------------------------------------------------ datastructures.py enums
\* An Enum member is a named object carrying its value; every value that can
\* stand where None can is a record tagged with its type.
None == [type |-> "NoneType"]

Member(enum, name, value) == [type |-> enum, name |-> name, value |-> value]

UNKNOWN == Member("CalculationStatus", "UNKNOWN", 0)
INCALCULATION == Member("CalculationStatus", "INCALCULATION", 1)
INDATABASE == Member("CalculationStatus", "INDATABASE", 2)
CALCULATIONSTARTED == Member("CalculationStatus", "CALCULATIONSTARTED", 3)
CALCULATIONFAILED == Member("CalculationStatus", "CALCULATIONFAILED", 4)
CalculationStatus ==
    {UNKNOWN, INCALCULATION, INDATABASE, CALCULATIONSTARTED, CALCULATIONFAILED}

REQUIRED == Member("ResultFileRequirement", "REQUIRED", 0)
OPTIONAL == Member("ResultFileRequirement", "OPTIONAL", 1)
ResultFileRequirement == {REQUIRED, OPTIONAL}

\* a str object
Str(text) == [type |-> "str", value |-> text]

\* --------------------------------------------------------------- text
\* the printable ASCII characters that text is drawn from, in code point
\* order: 32 (space) to 95 (underscore), and 97 (a) to 126 (tilde)
AsciiPunctuationAndUpper ==
    <<" ", "!", "\"", "#", "$", "%", "&", "'", "(", ")", "*", "+", ",", "-", ".", "/", "0", "1", "2", "3", "4", "5", "6", "7", "8", "9", ":", ";", "<", "=", ">", "?", "@", "A", "B", "C", "D", "E", "F", "G", "H", "I", "J", "K", "L", "M", "N", "O", "P", "Q", "R", "S", "T", "U", "V", "W", "X", "Y", "Z", "[", "\\", "]", "^", "_">>
AsciiLower ==
    <<"a", "b", "c", "d", "e", "f", "g", "h", "i", "j", "k", "l", "m", "n", "o", "p", "q", "r", "s", "t", "u", "v", "w", "x", "y", "z", "{", "|", "}", "~">>

CodePoint ==
    [c \in {AsciiPunctuationAndUpper[k] : k \in DOMAIN AsciiPunctuationAndUpper}
            \cup {AsciiLower[k] : k \in DOMAIN AsciiLower} |->
        IF \E k \in DOMAIN AsciiLower : AsciiLower[k] = c
        THEN 96 + (CHOOSE k \in DOMAIN AsciiLower : AsciiLower[k] = c)
        ELSE 31 + (CHOOSE k \in DOMAIN AsciiPunctuationAndUpper :
                                  AsciiPunctuationAndUpper[k] = c)]

\* str.encode("utf-8") on ASCII text: one byte per character, its code point
encode_utf8(s) == [k \in DOMAIN s |-> CodePoint[s[k]]]

\* hashlib.sha256(data).hexdigest(): the digest is not computed; it is taken
\* as an injective function of the bytes it is fed
sha256_hexdigest(data) == <<"sha256", data>>

Key_simulation_config == <<"\"", "s", "i", "m", "u", "l", "a", "t", "i", "o", "n", "_", "c", "o", "n", "f", "i", "g", "\"", ":", " ">>
Key_providername == <<"\"", "p", "r", "o", "v", "i", "d", "e", "r", "n", "a", "m", "e", "\"", ":", " ">>
Key_guid == <<"\"", "g", "u", "i", "d", "\"", ":", " ">>
Key_required_result_files == <<"\"", "r", "e", "q", "u", "i", "r", "e", "d", "_", "r", "e", "s", "u", "l", "t", "_", "f", "i", "l", "e", "s", "\"", ":", " ">>
Key_input_files == <<"\"", "i", "n", "p", "u", "t", "_", "f", "i", "l", "e", "s", "\"", ":", " ">>
JsonNull == <<"n", "u", "l", "l">>
JsonItemSeparator == <<",", " ">>
JsonKeySeparator == <<":", " ">>

\* json.dumps of a str: quoted, with the quote and the backslash escaped
RECURSIVE JsonEscape(_)
JsonEscape(s) ==
    IF s = <<>> THEN <<>>
    ELSE (IF Head(s) \in {"\"", "\\"} THEN <<"\\", Head(s)>> ELSE <<Head(s)>>)
         \o JsonEscape(Tail(s))

JsonString(s) == <<"\"">> \o JsonEscape(s) \o <<"\"">>

\* json.dumps of a value of required_result_files: an enum member is written
\* as its value, None as null
JsonRequirement(v) ==
    IF v = None THEN JsonNull
    ELSE <<AsciiPunctuationAndUpper[17 + v.value]>>

\* json.dumps of a dict, its entries in the order the dict holds them
\* (insertion order; sort_keys is off). A dict is a sequence of <<key, value>>
\* pairs with distinct keys.
RECURSIVE JsonItems(_, _)
JsonItems(d, isText) ==
    IF d = <<>> THEN <<>>
    ELSE JsonString(d[1][1]) \o JsonKeySeparator
         \o (IF isText THEN JsonString(d[1][2]) ELSE JsonRequirement(d[1][2]))
         \o (IF Len(d) > 1 THEN JsonItemSeparator ELSE <<>>)
         \o JsonItems(Tail(d), isText)

JsonDict(d, isText) == <<"{">> \o JsonItems(d, isText) \o <<"}">>

\* ------------------------------------------------------ TimeSeriesRequest
TimeSeriesRequest(sc, pn, g, rrf, inf) ==
    [type |-> "TimeSeriesRequest", simulation_config |-> sc, providername |-> pn,
     guid |-> g, required_result_files |-> rrf, input_files |-> inf]

\* a serialisation that leaves the guid out
to_json_WithoutGuid(r) ==
    Str(<<"{">>
        \o Key_simulation_config \o JsonString(r.simulation_config) \o JsonItemSeparator
        \o Key_providername \o JsonString(r.providername) \o JsonItemSeparator
        \o Key_required_result_files \o JsonDict(r.required_result_files, FALSE)
        \o JsonItemSeparator
        \o Key_input_files \o JsonDict(r.input_files, TRUE)
        \o <<"}">>)

\* TimeSeriesRequest.to_json (dataclasses_json): the five fields in
\* declaration order
to_json(r) ==
    Str(<<"{">>
        \o Key_simulation_config \o JsonString(r.simulation_config) \o JsonItemSeparator
        \o Key_providername \o JsonString(r.providername) \o JsonItemSeparator
        \o Key_guid \o JsonString(r.guid) \o JsonItemSeparator
        \o Key_required_result_files \o JsonDict(r.required_result_files, FALSE)
        \o JsonItemSeparator
        \o Key_input_files \o JsonDict(r.input_files, TRUE)
        \o <<"}">>)

get_hash(r) == sha256_hexdigest(encode_utf8(to_json(r).value))

\* -------------------------------------------------------- message texts
CalculationFailedPrefix ==
    <<"C", "a", "l", "c", "u", "l", "a", "t", "i", "o", "n", " ", "f", "a", "i", "l", "e", "d", ":", " ">>
UnknownStatusText ==
    <<"U", "n", "k", "n", "o", "w", "n", " ", "s", "t", "a", "t", "u", "s">>
ReceivedErrorCodePrefix ==
    <<"R", "e", "c", "e", "i", "v", "e", "d", " ", "e", "r", "r", "o", "r", " ", "c", "o", "d", "e", ":", " ">>
ResponseRepr ==
    <<"<", "R", "e", "s", "p", "o", "n", "s", "e", " ", "[", "5", "0", "0", "]", ">">>
NoTimeSeriesText ==
    <<"N", "o", " ", "t", "i", "m", "e", " ", "s", "e", "r", "i", "e", "s", " ", "w", "a", "s", " ", "d", "e", "l", "i", "v", "e", "r", "e", "d">>
NotValidStatusSuffix ==
    <<" ", "i", "s", " ", "n", "o", "t", " ", "a", " ", "v", "a", "l", "i", "d", " ", "C", "a", "l", "c", "u", "l", "a", "t", "i", "o", "n", "S", "t", "a", "t", "u", "s">>
DiskFull ==
    <<"d", "i", "s", "k", " ", "f", "u", "l", "l">>

\* a call either returns a value or raises an exception
Return(v) == [kind |-> "return", value |-> v]
Raise(e) == [kind |-> "raise", exc |-> e]
Exception(class, message) == [type |-> class, message |-> message]

\* whether text t occurs in text s
Contains(s, t) ==
    \E k \in 0..(Len(s) - Len(t)) :
        \A j \in 1..Len(t) : s[k + j] = t[j]

\* ---------------------------------------------------------------- inputs
\* the requests a caller passes: distinct objects, told apart by their guid
InputRequest(j) ==
    TimeSeriesRequest(<<"a">>, <<"a">>, <<AsciiLower[j]>>, <<>>, <<>>)
RequestPool == {InputRequest(j) : j \in 1..(MaxRequests + 1)}

\* ------------------------------------------------------------ RestReply
\* a RestReply that takes a status value no member has for UNKNOWN
RestReply_UnknownForBadStatus(d) ==
    Return([type |-> "RestReply",
            result_delivery |-> d.result_delivery,
            status |-> IF \E m \in CalculationStatus : m.value = d.status
                       THEN CHOOSE m \in CalculationStatus : m.value = d.status
                       ELSE UNKNOWN,
            request_hash |-> d.request_hash,
            info |-> d.info])

\* RestReply(**response_dict) with __post_init__: the int status becomes the
\* enum member of that value; CalculationStatus(v) raises ValueError for a
\* value no member has
RestReply(d) ==
    IF \E m \in CalculationStatus : m.value = d.status
    THEN Return([type |-> "RestReply",
                 result_delivery |-> d.result_delivery,
                 status |-> CHOOSE m \in CalculationStatus : m.value = d.status,
                 request_hash |-> d.request_hash,
                 info |-> d.info])
    ELSE Raise(Exception("ValueError",
                         <<AsciiPunctuationAndUpper[17 + d.status]>> \o NotValidStatusSuffix))

\* ------------------------------------------------- ResultDelivery objects
\* a dict object: its items in insertion order
Dict(items) == [type |-> "dict", items |-> items]
\* the values of a dict in insertion order, and the dict of the same keys
\* with other values: {k: ... for k, v in d.items()}
Values(d) == [k \in DOMAIN d.items |-> d.items[k][2]]
WithValues(d, vals) ==
    Dict([k \in DOMAIN d.items |-> <<d.items[k][1], vals[k]>>])

\* ResultDelivery(original_request, data, is_compressed) with __post_init__
ResultDelivery(original_request, data, is_compressed) ==
    [type |-> "ResultDelivery", original_request |-> original_request,
     data |-> data, is_compressed |-> is_compressed, data_encoded |-> None]

\* zlib.compress(v) and zlib.decompress(v) on the content of one file: the
\* deflate coding is not computed; a stream is its two header bytes (0x78
\* 0x9c) and the content, and bytes without the header are not a stream
ZlibHeader == <<120, 156>>
compress(v) == ZlibHeader \o v
\* {k: zlib.compress(v) for k, v in d.items()}
CompressEach(d) ==
    WithValues(d, [k \in DOMAIN d.items |-> compress(Values(d)[k])])

\* ------------------------------------------------------------ the server
\* The UTSP server is outside the client: it may answer any submission with
\* any HTTP response of the wire protocol.
\* the result files of a finished calculation
Payloads == {Dict(<<<<<<"a">>, <<0>>>>>>)}
InfoTexts == {None, Str(DiskFull)}

\* the bytes of a delivered result: the zlib-compressed JSON text of a
\* ResultDelivery
zlib_compress(text) == [type |-> "bytes", zlib |-> text]
ResultDeliveryJson(d) == [type |-> "str", json |-> d]
WireDelivery(req, p, c) ==
    zlib_compress(ResultDeliveryJson(
        [type |-> "ResultDelivery", original_request |-> req,
         data |-> IF c THEN CompressEach(p) ELSE p,
         is_compressed |-> c]))

\* the server's view of the requests it can be sent: the JSON body and the
\* hash of each
PoolJson == [r \in RequestPool |-> to_json(r)]
PoolHash == [r \in RequestPool |-> get_hash(r)]

\* the request a JSON body was serialised from
ParseRequest(body) == CHOOSE r \in RequestPool : PoolJson[r] = body

ReplyDict(req, v, rd, inf) ==
    [ok |-> TRUE, status_code |-> 200,
     json |-> [status |-> v, result_delivery |-> rd,
               request_hash |-> PoolHash[req], info |-> inf]]

\* requests.post(url, json=request, headers=...): what can come back for a body
HttpResponses(body) ==
    LET req == ParseRequest(body) IN
    {[ok |-> FALSE, status_code |-> 500]}
    \cup {ReplyDict(req, v, None, None) : v \in {0, 1, 3, 5}}
    \cup {ReplyDict(req, 2, WireDelivery(req, p, c), None) :
             p \in Payloads, c \in BOOLEAN}
    \cup {ReplyDict(req, 4, None, inf) : inf \in InfoTexts}

\* a response after which a polling wait submits no more
EndsPolling(response) ==
    IF response.ok THEN response.json.status \in {2, 4, 5} ELSE TRUE

\* ---------------------------------------------------------------- client
\* decompress_result_data: zlib.decompress(data).decode(), then from_json
zlib_decompress(data) == data.zlib
from_json(text) ==
    ResultDelivery(text.json.original_request, text.json.data,
                   text.json.is_compressed)
decompress_result_data(data) == from_json(zlib_decompress(data))

\* send_request, lines 41-42: a TimeSeriesRequest is serialised, a str is sent
\* as it is
RequestBody(request) ==
    IF request.type = "TimeSeriesRequest" THEN to_json(request) ELSE request

\* a send_request that takes a response that is not a success for a reply of
\* status UNKNOWN
send_request_SwallowsTransportError(response) ==
    IF ~response.ok
    THEN Return([type |-> "RestReply", result_delivery |-> None,
                 status |-> UNKNOWN, request_hash |-> Str(<<>>), info |-> None])
    ELSE RestReply(response.json)

\* send_request, lines 44-49, on the response of its one exchange
send_request(response) ==
    IF ~response.ok
    THEN Raise(Exception("Exception", ReceivedErrorCodePrefix \o ResponseRepr))
    ELSE RestReply(response.json)

\* get_result with the info text left out of the error
get_result_DropsInfo(reply) ==
    IF reply.status = INDATABASE
    THEN Return(decompress_result_data(reply.result_delivery))
    ELSE IF reply.status \in {CALCULATIONSTARTED, INCALCULATION}
    THEN Return(None)
    ELSE IF reply.status = CALCULATIONFAILED
    THEN Raise(Exception("Exception", CalculationFailedPrefix))
    ELSE Raise(Exception("Exception", UnknownStatusText))

\* a get_result that takes UNKNOWN for a calculation in progress
get_result_UnknownInProgress(reply) ==
    IF reply.status = INDATABASE
    THEN Return(decompress_result_data(reply.result_delivery))
    ELSE IF reply.status \in {CALCULATIONSTARTED, INCALCULATION, UNKNOWN}
    THEN Return(None)
    ELSE Raise(Exception("Exception",
                CalculationFailedPrefix
                \o (IF reply.info = None THEN <<>> ELSE reply.info.value)))

\* get_result; a returned None is the value None
get_result(reply) ==
    IF reply.status = INDATABASE
    THEN Return(decompress_result_data(reply.result_delivery))
    ELSE IF reply.status \in {CALCULATIONSTARTED, INCALCULATION}
    THEN Return(None)
    ELSE IF reply.status = CALCULATIONFAILED
    THEN Raise(Exception("Exception",
                CalculationFailedPrefix
                \o (IF reply.info = None THEN <<>> ELSE reply.info.value)))
    ELSE Raise(Exception("Exception", UnknownStatusText))

\* the while condition with one of its two terminal statuses forgotten
LoopCondition_StopsOnlyOnFailure(s) == s # CALCULATIONFAILED
LoopCondition_StopsOnlyOnSuccess(s) == s # INDATABASE

\* the while condition that also gives up on INCALCULATION
LoopCondition_GivesUpInCalculation(s) ==
    s \notin {INDATABASE, CALCULATIONFAILED, INCALCULATION}

\* the while condition of request_time_series_and_wait_for_delivery
LoopCondition(s) == s \notin {INDATABASE, CALCULATIONFAILED}

\* after the loop: get_result, the assertion, the return
WaitResult(reply) ==
    LET ts == get_result(reply) IN
    IF ts.kind = "raise" THEN ts
    ELSE IF ts.value = None
    THEN Raise(Exception("AssertionError", NoTimeSeriesText))
    ELSE ts

\* ----------------------------------------------------------------- state
VARIABLES
    entry,             \* the function the caller called
    requests,          \* calculate_multiple_requests: the requests argument
    raise_exceptions,  \* calculate_multiple_requests: the raise_exceptions argument
    quiet,             \* the quiet argument of the called function
    pc,                \* where the call stands
    i,                 \* position in requests of the running for loop (from 1)
    request,           \* the wait's local request
    status,            \* the wait's local status
    reply,             \* the wait's local reply
    results,           \* calculate_multiple_requests: the results list
    error_count,       \* calculate_multiple_requests: error_count
    result,            \* what a WAIT call returned (None until it returns)
    exc,               \* the exception that left the call (None if none)
    \* what an observer of the call has seen so far
    polls,             \* submissions made by the running (or last) wait
    nonterminal,       \* replies of non-terminal status that wait got
    sleeps,            \* seconds that wait slept, one per time.sleep(1) call
    sent_log,          \* the requests the fan-out loop submitted, in order
    wait_log,          \* the requests waited on, in order
    outcome,           \* per wait of wait_log: what it returned or raised (None while it runs)
    polled,            \* the requests some wait has submitted
    fanout_failed,     \* the requests whose fan-out reply had status CALCULATIONFAILED
    poll_failed,       \* the requests a wait got a CALCULATIONFAILED reply for
    resubmitted,       \* the requests submitted again after their fan-out reply CALCULATIONFAILED
    repolled,          \* the requests submitted again after a wait's CALCULATIONFAILED reply
    overtaken,         \* a request got a non-terminal reply after a later one had failed
    last_response,     \* the last response the running (or last) wait received: ok, and the status integer of its body
    \* get_hash
    r1, r2,            \* two request objects
    h1, h2,            \* their hashes
    hpc,               \* where the hashing stands
    \* ResultDelivery
    delivery,          \* the attributes of a ResultDelivery object
    before,            \* its attributes before the last method call
    before2,           \* its attributes before the call before that
    called,            \* the last method called on it
    called2,           \* the method called before that
    raised,            \* the exception the last call raised (None if none)
    raised2,           \* the exception the call before raised (None if none)
    ncalls,            \* the number of method calls made
    returned,          \* what the last call returned or raised
    \* send_request called on its own
    send_arg,          \* the request argument of the last call
    send_server,       \* the responses the server had for that call's posts
    send_posts,        \* the requests.post calls that call made
    send_out,          \* what that call returned or raised
    send_calls,        \* the number of calls made
    send_got,          \* what get_result returned or raised for the reply of the last call (None before it)
    \* TimeSeriesRequest(...) called on its own
    ctor_args,         \* the arguments of the constructor call
    ctor_out,          \* what the call returned or raised (None before it)
    \* shutdown called on its own
    shut_key,          \* the api_key argument of the last call
    shut_response,     \* the response the server had for that call's post
    shut_posted,       \* the requests.post calls that call made
    shut_out,          \* what that call returned or raised
    shut_calls,        \* the number of calls made
    \* calculate_multiple_hisim_requests_in_batches
    hisim_configs,     \* the hisim_configs argument
    max_simultaneous_requests, \* the max_simultaneous_requests argument
    batches_raise,     \* the raise_exceptions argument
    result_files,      \* the result_files argument
    batches_pc,        \* where the call stands
    batches_i,         \* the loop variable i of line 84
    all_results,       \* the all_results list
    batches_exc,       \* the exception that left the call (None if none)
    batches_log,       \* the batches passed on to calculate_multiple_hisim_requests, in order
    \* calculate_multiple_requests called twice, with quiet=True and quiet=False
    it_requests,       \* the requests argument: a list or a generator
    it_raise,          \* the raise_exceptions argument
    it_server,         \* per request, the answers the server has for its submissions
    run_quiet,         \* the call with quiet=True: its submissions and how it ended (None before it)
    run_loud           \* the call with quiet=False, likewise

callVars == <<entry, requests, raise_exceptions, quiet>>
frameVars == <<request, status, reply>>
batchVars == <<results, error_count>>
observerVars ==
    <<polls, nonterminal, sleeps, sent_log, wait_log, outcome, polled,
      fanout_failed, poll_failed, resubmitted, repolled, overtaken,
      last_response>>
clientVars == <<callVars, pc, i, frameVars, batchVars, result, exc, observerVars>>
hashVars == <<r1, r2, h1, h2, hpc>>
envelopeVars ==
    <<delivery, before, before2, called, called2, raised, raised2, ncalls,
      returned>>
sendVars ==
    <<send_arg, send_server, send_posts, send_out, send_calls, send_got>>
ctorVars == <<ctor_args, ctor_out>>
shutdownVars == <<shut_key, shut_response, shut_posted, shut_out, shut_calls>>
batchesVars ==
    <<hisim_configs, max_simultaneous_requests, batches_raise, result_files,
      batches_pc, batches_i, all_results, batches_exc, batches_log>>
iterableVars == <<it_requests, it_raise, it_server, run_quiet, run_loud>>
moreVars == <<ctorVars, shutdownVars, batchesVars, iterableVars>>
dataVars == <<hashVars, envelopeVars, sendVars, moreVars>>
vars == <<clientVars, hashVars, envelopeVars, sendVars, moreVars>>

WAIT == "request_time_series_and_wait_for_delivery"
BATCH == "calculate_multiple_requests"

Terminal == {INDATABASE, CALCULATIONFAILED}

NoHashing ==
    /\ r1 = None /\ r2 = None /\ h1 = None /\ h2 = None /\ hpc = "off"

NoEnvelope ==
    /\ delivery = None /\ before = None /\ before2 = None
    /\ called = "" /\ called2 = "" /\ raised = None /\ raised2 = None
    /\ ncalls = 0 /\ returned = None

NoSend ==
    /\ send_arg = None /\ send_server = <<>> /\ send_posts = 0
    /\ send_out = None /\ send_calls = 0 /\ send_got = None

NoConstructor ==
    /\ ctor_args = None /\ ctor_out = None

NoShutdown ==
    /\ shut_key = None /\ shut_response = None /\ shut_posted = <<>>
    /\ shut_out = None /\ shut_calls = 0

NoBatches ==
    /\ hisim_configs = <<>> /\ max_simultaneous_requests = 1
    /\ batches_raise = FALSE /\ result_files = None /\ batches_pc = "off"
    /\ batches_i = 0 /\ all_results = <<>> /\ batches_exc = None
    /\ batches_log = <<>>

NoIterable ==
    /\ it_requests = None /\ it_raise = TRUE /\ it_server = <<>>
    /\ run_quiet = None /\ run_loud = None

NoMore ==
    /\ NoConstructor
    /\ NoShutdown
    /\ NoBatches
    /\ NoIterable

\* a call of one of the two functions with its arguments
Init ==
    /\ entry \in {WAIT, BATCH}
    /\ quiet \in BOOLEAN
    /\ \E n \in 0..MaxRequests :
          /\ entry = WAIT => n = 1
          /\ requests = [j \in 1..n |-> InputRequest(j)]
    /\ raise_exceptions \in (IF entry = BATCH THEN BOOLEAN ELSE {TRUE})
    /\ pc = IF entry = BATCH THEN "fanout" ELSE "call"
    /\ i = 1
    /\ request \in (IF entry = BATCH THEN {None}
                    ELSE {requests[1], to_json(requests[1])})
    /\ status = UNKNOWN
    /\ reply = None
    /\ results = <<>>
    /\ error_count = 0
    /\ result = None
    /\ exc = None
    /\ polls = 0
    /\ nonterminal = 0
    /\ sleeps = 0
    /\ sent_log = <<>>
    /\ wait_log = <<>>
    /\ outcome = <<>>
    /\ polled = {}
    /\ fanout_failed = {}
    /\ poll_failed = {}
    /\ resubmitted = {}
    /\ repolled = {}
    /\ overtaken = FALSE
    /\ last_response = None
    /\ NoHashing
    /\ NoEnvelope
    /\ NoSend
    /\ NoMore

\* --------------------------------------------------------------- actions
N == Len(requests)

\* a fan-out loop that sends the first request in every round
FanOutRequest_SendsFirst(reqs, k) == reqs[1]

\* the request the fan-out loop sends in its k-th round (line 149)
FanOutRequest(reqs, k) == reqs[k]

\* the fan-in loop running over the requests from the last to the first
FanInRequest_Reversed(reqs, k) == reqs[Len(reqs) + 1 - k]

\* the request the fan-in loop waits on in its k-th round (line 160)
FanInRequest(reqs, k) == reqs[k]

\* calculate_multiple_requests, lines 149-151: one round of the fan-out loop.
\* The reply is dropped; an exception of send_request leaves the call.
FanOutSend ==
    /\ entry = BATCH /\ pc = "fanout" /\ i <= N
    /\ LET body == RequestBody(FanOutRequest(requests, i))
           req == ParseRequest(body) IN
       \E response \in HttpResponses(body) :
          LET r == send_request(response) IN
          /\ sent_log' = Append(sent_log, req)
          /\ resubmitted' = IF req \in fanout_failed
                            THEN resubmitted \cup {req} ELSE resubmitted
          /\ repolled' = IF req \in poll_failed
                         THEN repolled \cup {req} ELSE repolled
          /\ IF r.kind = "raise"
             THEN /\ pc' = "raised"
                  /\ exc' = r.exc
                  /\ UNCHANGED <<i, fanout_failed>>
             ELSE /\ i' = i + 1
                  /\ fanout_failed' =
                        IF r.value.status = CALCULATIONFAILED
                        THEN fanout_failed \cup {req} ELSE fanout_failed
                  /\ UNCHANGED <<pc, exc>>
    /\ UNCHANGED <<callVars, frameVars, batchVars, result, polls, nonterminal,
                   sleeps, wait_log, outcome, polled, poll_failed, overtaken,
                   last_response,
                   dataVars>>

\* the fan-out loop left after its first round
FanOutDone_AfterFirstRound ==
    /\ entry = BATCH /\ pc = "fanout" /\ i > (IF N > 1 THEN 1 ELSE N)
    /\ pc' = "collect"
    /\ i' = 1
    /\ results' = <<>>
    /\ error_count' = 0
    /\ UNCHANGED <<callVars, frameVars, result, exc, observerVars, dataVars>>

\* lines 153-159: the fan-out loop is over, the fan-in loop starts
FanOutDone ==
    /\ entry = BATCH /\ pc = "fanout" /\ i > N
    /\ pc' = "collect"
    /\ i' = 1
    /\ results' = <<>>
    /\ error_count' = 0
    /\ UNCHANGED <<callVars, frameVars, result, exc, observerVars, dataVars>>

\* request_time_series_and_wait_for_delivery is entered (lines 99-103): by the
\* caller, or by the fan-in loop for its i-th request (lines 160-165)
WaitBegin ==
    /\ IF entry = WAIT THEN pc = "call" ELSE pc = "collect" /\ i <= N
    /\ LET req == IF entry = WAIT THEN request ELSE FanInRequest(requests, i) IN
       /\ request' = RequestBody(req)
       /\ wait_log' = Append(wait_log, ParseRequest(RequestBody(req)))
    /\ status' = UNKNOWN
    /\ reply' = None
    /\ polls' = 0
    /\ nonterminal' = 0
    /\ sleeps' = 0
    /\ outcome' = Append(outcome, None)
    /\ last_response' = None
    /\ pc' = "loop"
    /\ UNCHANGED <<callVars, i, batchVars, result, exc, sent_log, polled,
                   fanout_failed, poll_failed, resubmitted, repolled,
                   overtaken, dataVars>>

\* the except clause that counts the exception without appending it
WaitEnds_SwallowsException(o) ==
    /\ outcome' = [outcome EXCEPT ![Len(outcome)] =
                      IF o.kind = "raise" THEN o.exc ELSE o.value]
    /\ IF entry = WAIT
       THEN /\ IF o.kind = "raise"
               THEN pc' = "raised" /\ exc' = o.exc /\ UNCHANGED result
               ELSE pc' = "returned" /\ result' = o.value /\ UNCHANGED exc
            /\ UNCHANGED <<i, batchVars>>
       ELSE IF o.kind = "return"
       THEN /\ results' = Append(results, o.value)
            /\ i' = i + 1
            /\ pc' = "collect"
            /\ UNCHANGED <<error_count, result, exc>>
       ELSE IF raise_exceptions
       THEN /\ pc' = "raised"
            /\ exc' = o.exc
            /\ UNCHANGED <<i, batchVars, result>>
       ELSE /\ results' = results
            /\ error_count' = error_count + 1
            /\ i' = i + 1
            /\ pc' = "collect"
            /\ UNCHANGED <<result, exc>>

\* the except clause that never re-raises
WaitEnds_AlwaysSuppresses(o) ==
    /\ outcome' = [outcome EXCEPT ![Len(outcome)] =
                      IF o.kind = "raise" THEN o.exc ELSE o.value]
    /\ IF entry = WAIT
       THEN /\ IF o.kind = "raise"
               THEN pc' = "raised" /\ exc' = o.exc /\ UNCHANGED result
               ELSE pc' = "returned" /\ result' = o.value /\ UNCHANGED exc
            /\ UNCHANGED <<i, batchVars>>
       ELSE IF o.kind = "return"
       THEN /\ results' = Append(results, o.value)
            /\ i' = i + 1
            /\ pc' = "collect"
            /\ UNCHANGED <<error_count, result, exc>>
       ELSE IF FALSE
       THEN /\ pc' = "raised"
            /\ exc' = o.exc
            /\ UNCHANGED <<i, batchVars, result>>
       ELSE /\ results' = Append(results, o.exc)
            /\ error_count' = error_count + 1
            /\ i' = i + 1
            /\ pc' = "collect"
            /\ UNCHANGED <<result, exc>>

\* the wait ends with o (a Return or a Raise): in the batch the fan-in loop
\* appends the result, or handles the exception (lines 166-173)
WaitEnds(o) ==
    /\ outcome' = [outcome EXCEPT ![Len(outcome)] =
                      IF o.kind = "raise" THEN o.exc ELSE o.value]
    /\ IF entry = WAIT
       THEN /\ IF o.kind = "raise"
               THEN pc' = "raised" /\ exc' = o.exc /\ UNCHANGED result
               ELSE pc' = "returned" /\ result' = o.value /\ UNCHANGED exc
            /\ UNCHANGED <<i, batchVars>>
       ELSE IF o.kind = "return"
       THEN /\ results' = Append(results, o.value)
            /\ i' = i + 1
            /\ pc' = "collect"
            /\ UNCHANGED <<error_count, result, exc>>
       ELSE IF raise_exceptions
       THEN /\ pc' = "raised"
            /\ exc' = o.exc
            /\ UNCHANGED <<i, batchVars, result>>
       ELSE /\ results' = Append(results, o.exc)
            /\ error_count' = error_count + 1
            /\ i' = i + 1
            /\ pc' = "collect"
            /\ UNCHANGED <<result, exc>>

\* what an observer notes of a response: whether it is a success, and the
\* status integer of its body
Received(response) ==
    IF response.ok
    THEN [ok |-> TRUE, status |-> response.json.status]
    ELSE [ok |-> FALSE]

\* a wait that polls again without sleeping
SleepsAfter_Never(slept, st) == slept

\* lines 110-111: the seconds slept so far, after the round whose reply has
\* status st: time.sleep(1) unless the status is INDATABASE
SleepsAfter(slept, st) == IF st # INDATABASE THEN slept + 1 ELSE slept

\* lines 104-111: one round of the while loop: one submission, the status of
\* its reply, and the sleep unless the status is INDATABASE
WaitSend ==
    /\ pc = "loop" /\ LoopCondition(status)
    /\ polls < MaxPolls
    /\ LET req == ParseRequest(request) IN
       \E response \in HttpResponses(request) :
          LET r == send_request(response) IN
          /\ IF polls + 1 < MaxPolls THEN TRUE ELSE EndsPolling(response)
          /\ polls' = polls + 1
          /\ last_response' = Received(response)
          /\ polled' = polled \cup {req}
          /\ resubmitted' = IF req \in fanout_failed
                            THEN resubmitted \cup {req} ELSE resubmitted
          /\ repolled' = IF req \in poll_failed
                         THEN repolled \cup {req} ELSE repolled
          /\ IF r.kind = "raise"
             THEN /\ WaitEnds(r)
                  /\ UNCHANGED <<status, reply, nonterminal, sleeps,
                                 poll_failed, overtaken>>
             ELSE /\ reply' = r.value
                  /\ status' = r.value.status
                  /\ nonterminal' = IF r.value.status \in Terminal
                                    THEN nonterminal ELSE nonterminal + 1
                  /\ sleeps' = SleepsAfter(sleeps, r.value.status)
                  /\ poll_failed' = IF r.value.status = CALCULATIONFAILED
                                    THEN poll_failed \cup {req} ELSE poll_failed
                  /\ overtaken' =
                        IF /\ r.value.status \notin Terminal
                           /\ \E j \in (i + 1)..N : requests[j] \in fanout_failed
                        THEN TRUE ELSE overtaken
                  /\ UNCHANGED <<pc, i, batchVars, result, exc, outcome>>
    /\ UNCHANGED <<callVars, request, sent_log, wait_log, fanout_failed, dataVars>>

\* lines 112-114: the loop is over: get_result, the assertion, the return
WaitFinish ==
    /\ pc = "loop" /\ ~LoopCondition(status)
    /\ WaitEnds(WaitResult(reply))
    /\ UNCHANGED <<callVars, frameVars, polls, nonterminal, sleeps, sent_log,
                   wait_log, polled, fanout_failed, poll_failed, resubmitted,
                   repolled, overtaken, last_response, dataVars>>

\* lines 174-176: the fan-in loop is over, the results list is returned
CollectDone ==
    /\ entry = BATCH /\ pc = "collect" /\ i > N
    /\ pc' = "returned"
    /\ UNCHANGED <<callVars, i, frameVars, batchVars, result, exc,
                   observerVars, dataVars>>

Next ==
    \/ FanOutSend
    \/ FanOutDone
    \/ WaitBegin
    \/ WaitSend
    \/ WaitFinish
    \/ CollectDone

Spec == Init /\ [][Next]_vars

\* the calls under a scheduler that lets the running call take its next step,
\* and a server that answers every submission (each step of a wait is one
\* exchange) and answers the last of MaxPolls submissions of a wait with a
\* terminal status or an error
\* (quiet only switches the console output, so the quiet calls stand for all)
InitFair == Init /\ quiet
FairSpec == InitFair /\ [][Next]_vars /\ WF_vars(Next)

TypeOK ==
    /\ pc \in {"fanout", "collect", "call", "loop", "returned", "raised"}
    /\ status \in CalculationStatus
    /\ polls \in 0..MaxPolls

\* ----------------------------------------------------------------------
\* Hashing of requests: two TimeSeriesRequest objects are built with the same
\* field values, the second is then changed by its caller (a dataclass is
\* mutable), and both are hashed.
\* ----------------------------------------------------------------------
Chars == {"a", "\""}
StrVals == UNION {[1..n -> Chars] : n \in 0..MaxStrLen}
ProviderNames == {<<"a">>, <<"\"">>}
Guids == {<<>>, <<"a">>, <<"\"">>}
FileNames == {<<"a">>, <<"b">>}
FileContents == {<<"a">>, <<"b">>}
Requirements == {None} \cup ResultFileRequirement

\* the dicts of at most MaxEntries entries, as the sequence of their items in
\* insertion order
Dicts(K, V) ==
    {d \in UNION {[1..n -> K \X V] : n \in 0..MaxEntries} :
        \A x, y \in DOMAIN d : x # y => d[x][1] # d[y][1]}

HashedRequests ==
    {TimeSeriesRequest(sc, pn, g, rrf, inf) :
        sc \in StrVals, pn \in ProviderNames, g \in Guids,
        rrf \in Dicts(FileNames, Requirements),
        inf \in Dicts(FileNames, FileContents)}

\* dict operations: d[k] = v keeps the place of a key the dict has and appends
\* a new key; del d[k]
HasKey(d, k) == \E x \in DOMAIN d : d[x][1] = k
SetItem(d, k, v) ==
    IF HasKey(d, k)
    THEN [x \in DOMAIN d |-> IF d[x][1] = k THEN <<k, v>> ELSE d[x]]
    ELSE Append(d, <<k, v>>)
DelItem(d, k) ==
    LET keep == {x \in DOMAIN d : d[x][1] # k}
        pos(n) == CHOOSE x \in keep : Cardinality({y \in keep : y < x}) = n - 1
    IN [n \in 1..Cardinality(keep) |-> d[pos(n)]]
\* the same items inserted in another order
Reorderings(d) ==
    {e \in [DOMAIN d -> {d[x] : x \in DOMAIN d}] :
        /\ e # d
        /\ \A x \in DOMAIN d : \E y \in DOMAIN d : e[y] = d[x]}

ClientOff ==
    /\ entry = "get_hash" /\ requests = <<>> /\ raise_exceptions = TRUE
    /\ quiet = TRUE /\ pc = "off" /\ i = 1 /\ request = None
    /\ status = UNKNOWN /\ reply = None /\ results = <<>> /\ error_count = 0
    /\ result = None /\ exc = None /\ polls = 0 /\ nonterminal = 0
    /\ sleeps = 0 /\ sent_log = <<>> /\ wait_log = <<>> /\ outcome = <<>>
    /\ polled = {} /\ fanout_failed = {} /\ poll_failed = {}
    /\ resubmitted = {} /\ repolled = {} /\ overtaken = FALSE
    /\ last_response = None

InitHash ==
    /\ ClientOff
    /\ NoEnvelope
    /\ NoSend
    /\ NoMore
    /\ r1 \in HashedRequests
    /\ r2 = r1
    /\ h1 = None
    /\ h2 = None
    /\ hpc = "built"

\* r2.<field> = v for one of the three string fields
SetSimulationConfig ==
    /\ hpc = "built"
    /\ \E v \in StrVals \ {r2.simulation_config} :
          r2' = [r2 EXCEPT !.simulation_config = v]
    /\ hpc' = "changed"
    /\ UNCHANGED <<r1, h1, h2, clientVars, envelopeVars, sendVars, moreVars>>

SetProviderName ==
    /\ hpc = "built"
    /\ \E v \in ProviderNames \ {r2.providername} :
          r2' = [r2 EXCEPT !.providername = v]
    /\ hpc' = "changed"
    /\ UNCHANGED <<r1, h1, h2, clientVars, envelopeVars, sendVars, moreVars>>

SetGuid ==
    /\ hpc = "built"
    /\ \E v \in Guids \ {r2.guid} : r2' = [r2 EXCEPT !.guid = v]
    /\ hpc' = "changed"
    /\ UNCHANGED <<r1, h1, h2, clientVars, envelopeVars, sendVars, moreVars>>

\* r2.required_result_files[k] = v, or del r2.required_result_files[k]
ChangeRequiredResultFile ==
    /\ hpc = "built"
    /\ \E k \in FileNames :
          LET d == r2.required_result_files IN
          \/ \E v \in Requirements :
                /\ <<k, v>> \notin {d[x] : x \in DOMAIN d}
                /\ HasKey(d, k) \/ Len(d) < MaxEntries
                /\ r2' = [r2 EXCEPT !.required_result_files = SetItem(d, k, v)]
          \/ /\ HasKey(d, k)
             /\ r2' = [r2 EXCEPT !.required_result_files = DelItem(d, k)]
    /\ hpc' = "changed"
    /\ UNCHANGED <<r1, h1, h2, clientVars, envelopeVars, sendVars, moreVars>>

\* r2.input_files[k] = v, or del r2.input_files[k]
ChangeInputFile ==
    /\ hpc = "built"
    /\ \E k \in FileNames :
          LET d == r2.input_files IN
          \/ \E v \in FileContents :
                /\ <<k, v>> \notin {d[x] : x \in DOMAIN d}
                /\ HasKey(d, k) \/ Len(d) < MaxEntries
                /\ r2' = [r2 EXCEPT !.input_files = SetItem(d, k, v)]
          \/ /\ HasKey(d, k)
             /\ r2' = [r2 EXCEPT !.input_files = DelItem(d, k)]
    /\ hpc' = "changed"
    /\ UNCHANGED <<r1, h1, h2, clientVars, envelopeVars, sendVars, moreVars>>

\* r2 is given the same entries as r1, inserted in another order
ReinsertEntries ==
    /\ hpc = "built"
    /\ \/ \E e \in Reorderings(r2.required_result_files) :
             r2' = [r2 EXCEPT !.required_result_files = e]
       \/ \E e \in Reorderings(r2.input_files) :
             r2' = [r2 EXCEPT !.input_files = e]
    /\ hpc' = "reordered"
    /\ UNCHANGED <<r1, h1, h2, clientVars, envelopeVars, sendVars, moreVars>>

\* r1.get_hash() and r2.get_hash()
HashBoth ==
    /\ hpc \in {"built", "changed", "reordered"}
    /\ h1' = get_hash(r1)
    /\ h2' = get_hash(r2)
    /\ hpc' = "hashed"
    /\ UNCHANGED <<r1, r2, clientVars, envelopeVars, sendVars, moreVars>>

NextHash ==
    \/ SetSimulationConfig
    \/ SetProviderName
    \/ SetGuid
    \/ ChangeRequiredResultFile
    \/ ChangeInputFile
    \/ ReinsertEntries
    \/ HashBoth

SpecHash == InitHash /\ [][NextHash]_vars

\* ----------------------------------------------------------------------
\* ResultDelivery: an object is constructed and its compress_data,
\* decompress_data, encode_data and decode_data methods are called in any
\* order; a caller may go on after a call that raised.
\* ----------------------------------------------------------------------
AlreadyCompressedText ==
    <<"D", "a", "t", "a", " ", "i", "s", " ", "a", "l", "r", "e", "a", "d", "y", " ", "c", "o", "m", "p", "r", "e", "s", "s", "e", "d">>
CannotCompressText ==
    <<"C", "a", "n", "n", "o", "t", " ", "c", "o", "m", "p", "r", "e", "s", "s", " ", "e", "n", "c", "o", "d", "e", "d", " ", "d", "a", "t", "a">>
NotCompressedText ==
    <<"D", "a", "t", "a", " ", "i", "s", " ", "n", "o", "t", " ", "c", "o", "m", "p", "r", "e", "s", "s", "e", "d">>
DecodeFirstText ==
    <<"D", "a", "t", "a", " ", "h", "a", "s", " ", "t", "o", " ", "b", "e", " ", "d", "e", "c", "o", "d", "e", "d", " ", "b", "e", "f", "o", "r", "e", " ", "d", "e", "c", "o", "m", "p", "r", "e", "s", "s", "i", "o", "n">>
AlreadyEncodedText ==
    <<"D", "a", "t", "a", " ", "i", "s", " ", "a", "l", "r", "e", "a", "d", "y", " ", "e", "n", "c", "o", "d", "e", "d">>
NotEncodedText ==
    <<"D", "a", "t", "a", " ", "i", "s", " ", "n", "o", "t", " ", "e", "n", "c", "o", "d", "e", "d">>
BothNoneText ==
    <<"B", "u", "g", " ", "i", "n", " ", "R", "e", "s", "u", "l", "t", "D", "e", "l", "i", "v", "e", "r", "y", ":", " ", "b", "o", "t", "h", " ", "d", "a", "t", "a", " ", "m", "e", "m", "b", "e", "r", "s", " ", "w", "e", "r", "e", " ", "N", "o", "n", "e">>
ZlibErrorText ==
    <<"E", "r", "r", "o", "r", " ", "-", "3", " ", "w", "h", "i", "l", "e", " ", "d", "e", "c", "o", "m", "p", "r", "e", "s", "s", "i", "n", "g", " ", "d", "a", "t", "a", ":", " ", "i", "n", "c", "o", "r", "r", "e", "c", "t", " ", "h", "e", "a", "d", "e", "r", " ", "c", "h", "e", "c", "k">>

\* bytes are sequences of numbers 0..255
\* bytes.decode() and chr() on ASCII bytes
Chr(n) == IF n >= 97 THEN AsciiLower[n - 96] ELSE AsciiPunctuationAndUpper[n - 31]
bytes_decode(b) == [k \in DOMAIN b |-> Chr(b[k])]

\* the base64 alphabet: A-Z, a-z, 0-9, + and /
B64Alphabet ==
    SubSeq(AsciiPunctuationAndUpper, 34, 59) \o SubSeq(AsciiLower, 1, 26)
    \o SubSeq(AsciiPunctuationAndUpper, 17, 26)
    \o <<AsciiPunctuationAndUpper[12], AsciiPunctuationAndUpper[16]>>
B64Pad == CodePoint["="]
B64Digit(v) == CodePoint[B64Alphabet[v + 1]]
B64Value(c) ==
    IF c = B64Pad THEN 0
    ELSE (CHOOSE k \in DOMAIN B64Alphabet : CodePoint[B64Alphabet[k]] = c) - 1

\* base64.b64encode(b): three bytes become four digits of six bits; a last
\* group of one or two bytes is padded with =
RECURSIVE b64encode(_)
b64encode(b) ==
    IF Len(b) = 0 THEN <<>>
    ELSE LET n == IF Len(b) < 3 THEN Len(b) ELSE 3
             w == b[1] * 65536
                  + (IF n >= 2 THEN b[2] ELSE 0) * 256
                  + (IF n >= 3 THEN b[3] ELSE 0)
         IN <<B64Digit(w \div 262144),
              B64Digit((w \div 4096) % 64),
              IF n >= 2 THEN B64Digit((w \div 64) % 64) ELSE B64Pad,
              IF n >= 3 THEN B64Digit(w % 64) ELSE B64Pad>>
            \o b64encode(SubSeq(b, n + 1, Len(b)))

\* the 24 bits of a group of four digits, as three bytes
B64GroupBytes(g) ==
    LET w == B64Value(g[1]) * 262144 + B64Value(g[2]) * 4096
             + B64Value(g[3]) * 64 + B64Value(g[4])
    IN <<w \div 65536, (w \div 256) % 256, w % 256>>

\* a decoder that takes the padding for digits of value 0
RECURSIVE b64decode_KeepsPaddingBytes(_)
b64decode_KeepsPaddingBytes(s) ==
    IF Len(s) = 0 THEN <<>>
    ELSE B64GroupBytes(SubSeq(s, 1, 4))
         \o b64decode_KeepsPaddingBytes(SubSeq(s, 5, Len(s)))

\* base64.b64decode(s) on the output of b64encode: each = of a group stands
\* for a byte that is not there
RECURSIVE b64decode(_)
b64decode(s) ==
    IF Len(s) = 0 THEN <<>>
    ELSE LET g == SubSeq(s, 1, 4)
             pads == Cardinality({k \in 3..4 : g[k] = B64Pad})
         IN SubSeq(B64GroupBytes(g), 1, 3 - pads)
            \o b64decode(SubSeq(s, 5, Len(s)))

\* zlib.decompress(v) on the content of one file
decompress(v) ==
    IF Len(v) >= 2 /\ SubSeq(v, 1, 2) = ZlibHeader
    THEN Return(SubSeq(v, 3, Len(v)))
    ELSE Raise(Exception("zlib.error", ZlibErrorText))

\* what a method call does: the attributes after it, and None returned or an
\* exception raised
Done(self) == [self |-> self, outcome |-> Return(None)]
Fails(self, class, message) ==
    [self |-> self, outcome |-> Raise(Exception(class, message))]

\* is_encoded (lines 101-110)
is_encoded(self) ==
    IF (self.data = None) # (self.data_encoded = None)
    THEN [self |-> self, outcome |-> Return(self.data = None)]
    ELSE Fails(self, "AssertionError", BothNoneText)

\* get_data (lines 112-121): the assertion of is_encoded leaves get_data; the
\* one of line 120 cannot fail once is_encoded has returned
get_data(self) ==
    LET e == is_encoded(self) IN
    IF e.outcome.kind = "raise" THEN e
    ELSE [self |-> self,
          outcome |-> Return(IF e.outcome.value THEN self.data_encoded
                             ELSE self.data)]

\* get_file_count (lines 133-139): len(self.get_data())
get_file_count(self) ==
    LET d == get_data(self) IN
    IF d.outcome.kind = "raise" THEN d
    ELSE [self |-> self, outcome |-> Return(Len(d.outcome.value.items))]

\* compress_data without its first assertion
compress_data_Unchecked(self) ==
    IF self.data = None
    THEN Fails(self, "AssertionError", CannotCompressText)
    ELSE Done([self EXCEPT !.data = CompressEach(self.data),
                           !.is_compressed = TRUE])

\* compress_data (lines 141-148)
compress_data(self) ==
    IF self.is_compressed
    THEN Fails(self, "AssertionError", AlreadyCompressedText)
    ELSE IF self.data = None
    THEN Fails(self, "AssertionError", CannotCompressText)
    ELSE Done([self EXCEPT !.data = CompressEach(self.data),
                           !.is_compressed = TRUE])

\* decompress_data (lines 150-157): an error of zlib.decompress leaves the dict
\* comprehension before anything is assigned
decompress_data(self) ==
    IF ~self.is_compressed
    THEN Fails(self, "AssertionError", NotCompressedText)
    ELSE IF self.data = None
    THEN Fails(self, "AssertionError", DecodeFirstText)
    ELSE LET items == self.data.items
             outs == [k \in DOMAIN items |-> decompress(items[k][2])]
             bad == {k \in DOMAIN items : outs[k].kind = "raise"}
         IN IF bad # {}
            THEN [self |-> self,
                  outcome |-> outs[CHOOSE k \in bad : \A j \in bad : k <= j]]
            ELSE Done([self EXCEPT
                          !.data = Dict([k \in DOMAIN items |->
                                            <<items[k][1], outs[k].value>>]),
                          !.is_compressed = FALSE])

\* encode_data (lines 159-166)
encode_data(self) ==
    IF self.data = None
    THEN Fails(self, "AssertionError", AlreadyEncodedText)
    ELSE Done([self EXCEPT !.data_encoded =
                  WithValues(self.data,
                             [k \in DOMAIN self.data.items |->
                                 bytes_decode(b64encode(Values(self.data)[k]))])])

\* a decode_data that empties data before it checks for encoded data
decode_data_ResetsFirst(self) ==
    IF self.data_encoded = None
    THEN Fails([self EXCEPT !.data = Dict(<<>>)], "AssertionError", NotEncodedText)
    ELSE Done([self EXCEPT !.data =
                  WithValues(self.data_encoded,
                             [k \in DOMAIN self.data_encoded.items |->
                                 b64decode(encode_utf8(Values(self.data_encoded)[k]))])])

\* decode_data (lines 168-175)
decode_data(self) ==
    IF self.data_encoded = None
    THEN Fails(self, "AssertionError", NotEncodedText)
    ELSE Done([self EXCEPT !.data =
                  WithValues(self.data_encoded,
                             [k \in DOMAIN self.data_encoded.items |->
                                 b64decode(encode_utf8(Values(self.data_encoded)[k]))])])

\* the contents of result files
FileBytes == {0, 255}
ByteStrings == UNION {[1..n -> FileBytes] : n \in 0..MaxBytes}

\* ResultDelivery(original_request, data, is_compressed), data a dict
InitEnvelope ==
    /\ ClientOff
    /\ NoHashing
    /\ NoSend
    /\ NoMore
    /\ delivery \in {ResultDelivery(InputRequest(1), Dict(d), c) :
                        d \in Dicts(FileNames, ByteStrings), c \in BOOLEAN}
    /\ before = None /\ before2 = None
    /\ called = "__init__" /\ called2 = ""
    /\ raised = None /\ raised2 = None
    /\ ncalls = 0
    /\ returned = Return(None)

\* delivery.<name>() with the effect res
MethodCall(name, res) ==
    /\ delivery # None
    /\ ncalls < MaxCalls
    /\ delivery' = res.self
    /\ before' = delivery
    /\ before2' = before
    /\ called' = name
    /\ called2' = called
    /\ raised' = IF res.outcome.kind = "raise" THEN res.outcome.exc ELSE None
    /\ raised2' = raised
    /\ ncalls' = ncalls + 1
    /\ returned' = res.outcome
    /\ UNCHANGED <<clientVars, hashVars, sendVars, moreVars>>

IsEncoded == MethodCall("is_encoded", is_encoded(delivery))
CompressData == MethodCall("compress_data", compress_data(delivery))
DecompressData == MethodCall("decompress_data", decompress_data(delivery))
EncodeData == MethodCall("encode_data", encode_data(delivery))
DecodeData == MethodCall("decode_data", decode_data(delivery))
GetData == MethodCall("get_data", get_data(delivery))
GetFileCount == MethodCall("get_file_count", get_file_count(delivery))

NextEnvelope ==
    \/ IsEncoded
    \/ CompressData
    \/ DecompressData
    \/ EncodeData
    \/ DecodeData
    \/ GetData
    \/ GetFileCount

SpecEnvelope == InitEnvelope /\ [][NextEnvelope]_vars

\* ----------------------------------------------------------------------
\* send_request called on its own, any number of times for one request. The
\* server has an answer ready for each post a call could make.
\* ----------------------------------------------------------------------
\* a send_request that posts again when the response is not a success
send_request_call_RetriesOnError(server) ==
    IF server[1].ok
    THEN [posts |-> 1, outcome |-> send_request(server[1])]
    ELSE [posts |-> 2, outcome |-> send_request(server[2])]

\* send_request (lines 43-49) against a server that has server[k] ready for
\* the k-th post of the body: the one requests.post of line 43 gets server[1]
send_request_call(server) ==
    [posts |-> 1, outcome |-> send_request(server[1])]

InitSend ==
    /\ ClientOff
    /\ NoHashing
    /\ NoEnvelope
    /\ NoMore
    /\ send_arg \in RequestPool \cup {to_json(r) : r \in RequestPool}
    /\ send_server = <<>>
    /\ send_posts = 0
    /\ send_out = None
    /\ send_calls = 0
    /\ send_got = None

\* send_request(url, send_arg, api_key)
SendRequest ==
    /\ send_arg # None
    /\ send_calls < MaxSends
    /\ \E server \in [1..2 -> HttpResponses(RequestBody(send_arg))] :
          LET c == send_request_call(server) IN
          /\ send_server' = server
          /\ send_posts' = c.posts
          /\ send_out' = c.outcome
    /\ send_calls' = send_calls + 1
    /\ send_got' = None
    /\ UNCHANGED <<send_arg, clientVars, hashVars, envelopeVars, moreVars>>

\* get_result(reply) for the reply the last send_request call returned
GetResult ==
    /\ send_out # None /\ send_got = None
    /\ send_out.kind = "return"
    /\ send_got' = get_result(send_out.value)
    /\ UNCHANGED <<send_arg, send_server, send_posts, send_out, send_calls,
                   clientVars, hashVars, envelopeVars, moreVars>>

\* requests.post(url, json=..., headers={"Authorization": api_key}) as the
\* server sees it; json is None when the call passes none
Post(json, api_key) == [json |-> json, headers |-> [Authorization |-> api_key]]

ApiKeys == {<<>>, <<"k">>}

\* what can come back for the post of shutdown
ShutdownResponses ==
    {[ok |-> FALSE, status_code |-> 500], [ok |-> TRUE, status_code |-> 200]}

\* a shutdown that treats its response as send_request does
shutdown_RaisesOnError(api_key, response) ==
    [posted |-> <<Post(None, api_key)>>,
     outcome |-> IF ~response.ok
                 THEN Raise(Exception("Exception",
                                      ReceivedErrorCodePrefix \o ResponseRepr))
                 ELSE Return(None)]

\* shutdown (line 188): one requests.post without a body; the response is
\* dropped and the function returns None
shutdown(api_key, response) ==
    [posted |-> <<Post(None, api_key)>>, outcome |-> Return(None)]

\* shutdown(url, api_key)
Shutdown ==
    /\ shut_calls < MaxSends
    /\ \E api_key \in ApiKeys, response \in ShutdownResponses :
          LET c == shutdown(api_key, response) IN
          /\ shut_key' = api_key
          /\ shut_response' = response
          /\ shut_posted' = c.posted
          /\ shut_out' = c.outcome
    /\ shut_calls' = shut_calls + 1
    /\ UNCHANGED <<clientVars, hashVars, envelopeVars, sendVars, ctorVars,
                   batchesVars, iterableVars>>

NextSend == SendRequest \/ GetResult \/ Shutdown

SpecSend == InitSend /\ [][NextSend]_vars

\* ----------------------------------------------------------------------
\* TimeSeriesRequest(...) called on its own with arguments of any type
\* ----------------------------------------------------------------------
RequiredResultFilesMustBeDictText ==
    "Invalid TimeSeriesRequest: the required_result_files attribute must be a dict"
InputFilesMustBeDictText ==
    "Invalid TimeSeriesRequest: the input_files attribute must be a dict"

\* Python values that are no dict: a list and an int
List(items) == [type |-> "list", elements |-> items]
PyInt(n) == [type |-> "int", int |-> n]
isinstance_dict(x) == x.type = "dict"

\* a __post_init__ that checks required_result_files only
post_init_ChecksResultFilesOnly(self) ==
    IF ~ isinstance_dict(self.required_result_files)
    THEN Raise(Exception("RuntimeError", RequiredResultFilesMustBeDictText))
    ELSE Return(None)

\* TimeSeriesRequest.__post_init__ (lines 56-64), self holding the arguments
\* as the generated __init__ assigned them
post_init(self) ==
    IF ~ isinstance_dict(self.required_result_files)
    THEN Raise(Exception("RuntimeError", RequiredResultFilesMustBeDictText))
    ELSE IF ~ isinstance_dict(self.input_files)
    THEN Raise(Exception("RuntimeError", InputFilesMustBeDictText))
    ELSE Return(None)

\* an attribute as the request objects above hold it: a dict by its items
Attribute(x) == IF isinstance_dict(x) THEN x.items ELSE x

\* the constructor call: the dataclass __init__ assigns the five fields and
\* calls __post_init__; the caller gets the object only if that returns
TimeSeriesRequest_call(args) ==
    LET checked == post_init(args) IN
    IF checked.kind = "raise" THEN checked
    ELSE Return(TimeSeriesRequest(args.simulation_config, args.providername,
                                  args.guid,
                                  Attribute(args.required_result_files),
                                  Attribute(args.input_files)))

NonDicts == {None, List(<<>>), List(<<<<"a">>>>), Str(<<"a">>), PyInt(0)}
ResultFilesArguments ==
    {Dict(d) : d \in Dicts(FileNames, Requirements)} \cup NonDicts
InputFilesArguments ==
    {Dict(d) : d \in Dicts(FileNames, FileContents)} \cup NonDicts

InitConstructor ==
    /\ ClientOff
    /\ NoHashing
    /\ NoEnvelope
    /\ NoSend
    /\ NoShutdown
    /\ NoBatches
    /\ NoIterable
    /\ ctor_args \in [simulation_config : {<<"a">>}, providername : {<<"a">>},
                      guid : {<<>>, <<"a">>},
                      required_result_files : ResultFilesArguments,
                      input_files : InputFilesArguments]
    /\ ctor_out = None

\* TimeSeriesRequest(simulation_config, providername, guid,
\*                   required_result_files, input_files)
Construct ==
    /\ ctor_args # None
    /\ ctor_out = None
    /\ ctor_out' = TimeSeriesRequest_call(ctor_args)
    /\ UNCHANGED <<ctor_args, clientVars, hashVars, envelopeVars, sendVars,
                   shutdownVars, batchesVars, iterableVars>>

NextConstructor == Construct

SpecConstructor == InitConstructor /\ [][NextConstructor]_vars

\* ----------------------------------------------------------------------
\* examples: calculate_multiple_hisim_requests_in_batches
\* ----------------------------------------------------------------------
\* the parameters of calculate_multiple_hisim_requests
\* (example_multiple_hisim_requests.py lines 23-24)
HisimRequestsParameters == {"hisim_configs", "return_exceptions", "result_files"}

UnexpectedKeywordText ==
    "calculate_multiple_hisim_requests() got an unexpected keyword argument"

\* what a call of calculate_multiple_hisim_requests can have collected (lines
\* 54-66): per request the result of its wait or, when exceptions are
\* returned, its exception
HisimResult(config) == [type |-> "ResultDelivery", simulation_config |-> config]
HisimError(config) == [type |-> "Exception", simulation_config |-> config]
HisimOutcomes(configs, return_exceptions) ==
    {Return([k \in DOMAIN configs |-> HisimResult(configs[k])])}
    \cup (IF configs = <<>> THEN {}
          ELSE IF return_exceptions
          THEN {Return([k \in DOMAIN configs |->
                           IF k \in bad THEN HisimError(configs[k])
                           ELSE HisimResult(configs[k])]) :
                   bad \in (SUBSET DOMAIN configs) \ {{}}}
          ELSE {Raise(HisimError(configs[k])) : k \in DOMAIN configs})

\* calculate_multiple_hisim_requests(configs, **keywords): the outcomes a call
\* can have. Python binds the keywords to the parameters before the body runs
\* and raises TypeError for a keyword that names no parameter.
calculate_multiple_hisim_requests(configs, keywords) ==
    IF \E name \in DOMAIN keywords : name \notin HisimRequestsParameters
    THEN {Raise([type |-> "TypeError", message |-> UnexpectedKeywordText,
                 keyword |-> CHOOSE name \in DOMAIN keywords :
                                name \notin HisimRequestsParameters])}
    ELSE HisimOutcomes(configs,
                       IF "return_exceptions" \in DOMAIN keywords
                       THEN keywords.return_exceptions ELSE FALSE)

MaxConfigs == 3
Configs == {<<"a">>, <<"b">>}

\* a call with a list of configurations and a positive batch size
InitBatches ==
    /\ ClientOff
    /\ NoHashing
    /\ NoEnvelope
    /\ NoSend
    /\ NoConstructor
    /\ NoShutdown
    /\ NoIterable
    /\ hisim_configs \in UNION {[1..n -> Configs] : n \in 0..MaxConfigs}
    /\ max_simultaneous_requests \in 1..MaxConfigs
    /\ batches_raise \in BOOLEAN
    /\ result_files \in {None, Dict(<<>>)}
    /\ batches_pc = "loop"
    /\ batches_i = 0
    /\ all_results = <<>>
    /\ batches_exc = None
    /\ batches_log = <<>>

Min(a, b) == IF a < b THEN a ELSE b

\* lines 84-92: one round of the for loop over range(0, len, max): the slice
\* and the call of calculate_multiple_hisim_requests with the keywords
\* raise_exceptions and result_files
BatchRound ==
    /\ batches_pc = "loop" /\ batches_i < Len(hisim_configs)
    /\ LET batch == SubSeq(hisim_configs, batches_i + 1,
                           Min(batches_i + max_simultaneous_requests,
                               Len(hisim_configs)))
       IN /\ batches_log' = Append(batches_log, batch)
          /\ \E o \in calculate_multiple_hisim_requests(batch,
                         [raise_exceptions |-> batches_raise,
                          result_files |-> result_files]) :
                IF o.kind = "raise"
                THEN /\ batches_pc' = "raised"
                     /\ batches_exc' = o.exc
                     /\ UNCHANGED <<batches_i, all_results>>
                ELSE /\ all_results' = all_results \o o.value
                     /\ batches_i' = batches_i + max_simultaneous_requests
                     /\ UNCHANGED <<batches_pc, batches_exc>>
    /\ UNCHANGED <<hisim_configs, max_simultaneous_requests, batches_raise,
                   result_files, clientVars, hashVars, envelopeVars, sendVars,
                   ctorVars, shutdownVars, iterableVars>>

\* line 93: the range is exhausted, all_results is returned
BatchesReturn ==
    /\ batches_pc = "loop" /\ batches_i >= Len(hisim_configs)
    /\ batches_pc' = "returned"
    /\ UNCHANGED <<hisim_configs, max_simultaneous_requests, batches_raise,
                   result_files, batches_i, all_results, batches_exc,
                   batches_log, clientVars, hashVars, envelopeVars, sendVars,
                   ctorVars, shutdownVars, iterableVars>>

NextBatches == BatchRound \/ BatchesReturn

SpecBatches == InitBatches /\ [][NextBatches]_vars

\* ----------------------------------------------------------------------
\* calculate_multiple_requests as a whole call, on a list or on a generator,
\* against a server whose answer to the k-th submission of a request is
\* fixed. The same call is made with quiet=True and with quiet=False.
\* ----------------------------------------------------------------------
MaxIterable == 2

NoLenText ==
    <<"o", "b", "j", "e", "c", "t", " ", "o", "f", " ", "t", "y", "p", "e", " ", "'", "g", "e", "n", "e", "r", "a", "t", "o", "r", "'", " ", "h", "a", "s", " ", "n", "o", " ", "l", "e", "n", "(", ")">>

\* the requests argument (line 119): a list, or a generator of the same items
Iterable(kind, items) == [type |-> kind, items |-> items]

\* len(requests), line 145
len(x) ==
    IF x.type = "list" THEN Return(Len(x.items))
    ELSE Raise(Exception("TypeError", NoLenText))

\* what the nth for loop over the argument gets (lines 149 and 160; tqdm
\* passes on what its argument yields): a list yields its items every time, a
\* generator only the first time
Traversal(x, nth) == IF x.type = "list" \/ nth = 1 THEN x.items ELSE <<>>

\* the answers of the server: by kind, and for a body
AnswerKinds == {"error500", "incalculation", "indatabase", "failed"}
Answer(kind, body) ==
    LET req == ParseRequest(body) IN
    IF kind = "error500" THEN [ok |-> FALSE, status_code |-> 500]
    ELSE IF kind = "incalculation" THEN ReplyDict(req, 1, None, None)
    ELSE IF kind = "indatabase"
    THEN ReplyDict(req, 2,
                   WireDelivery(req, CHOOSE p \in Payloads : TRUE, FALSE), None)
    ELSE ReplyDict(req, 4, None, Str(DiskFull))

\* the answers to the submissions of one request: to the fan-out submission,
\* then to at most MaxPolls polls, the last of which ends the polling
Scripts ==
    {<<f>> \o [k \in 1..n |-> IF k < n THEN "incalculation" ELSE last] :
        f \in {"error500", "incalculation", "indatabase"}, n \in 1..MaxPolls,
        last \in AnswerKinds \ {"incalculation"}}

\* the answer to the k-th submission; the last answer is repeated
Answered(script, k) == script[IF k < Len(script) THEN k ELSE Len(script)]

\* lines 104-114 from the m-th poll on: the polls made and what the wait
\* returns or raises
RECURSIVE PollRun(_, _, _)
PollRun(body, script, m) ==
    LET r == send_request(Answer(Answered(script, m + 1), body)) IN
    IF r.kind = "raise" THEN [polls |-> m, outcome |-> r]
    ELSE IF LoopCondition(r.value.status) THEN PollRun(body, script, m + 1)
    ELSE [polls |-> m, outcome |-> WaitResult(r.value)]

\* lines 149-151 from the k-th item on: the bodies sent, and the exception of
\* send_request that ended the loop, if any
RECURSIVE FanOutRun(_, _, _)
FanOutRun(items, server, k) ==
    IF k > Len(items) THEN [sent |-> <<>>, outcome |-> Return(None)]
    ELSE LET body == RequestBody(items[k])
             r == send_request(Answer(Answered(server[k], 1), body))
         IN IF r.kind = "raise" THEN [sent |-> <<body>>, outcome |-> r]
            ELSE LET rest == FanOutRun(items, server, k + 1)
                 IN [sent |-> <<body>> \o rest.sent, outcome |-> rest.outcome]

\* lines 160-176 from the k-th item on: the bodies sent, the bodies waited
\* on, and the results list returned or the exception raised
RECURSIVE FanInRun(_, _, _, _, _)
FanInRun(items, server, raise_exc, k, res) ==
    IF k > Len(items)
    THEN [sent |-> <<>>, waited |-> <<>>, outcome |-> Return(res)]
    ELSE LET body == RequestBody(items[k])
             w == PollRun(body, server[k], 1)
             sent == [j \in 1..w.polls |-> body]
         IN IF w.outcome.kind = "raise" /\ raise_exc
            THEN [sent |-> sent, waited |-> <<body>>, outcome |-> w.outcome]
            ELSE LET rest == FanInRun(items, server, raise_exc, k + 1,
                                      Append(res, IF w.outcome.kind = "raise"
                                                  THEN w.outcome.exc
                                                  ELSE w.outcome.value))
                 IN [sent |-> sent \o rest.sent,
                     waited |-> <<body>> \o rest.waited,
                     outcome |-> rest.outcome]

\* calculate_multiple_requests (lines 143-176): the bodies of the fan-out,
\* the bodies waited on, all submissions in order, and how the call ends
calculate_multiple_requests(reqs, raise_exc, q, server) ==
    LET n == IF q THEN Return(None) ELSE len(reqs) IN
    IF n.kind = "raise"
    THEN [fanout |-> <<>>, fanin |-> <<>>, submissions |-> <<>>, outcome |-> n]
    ELSE LET out == FanOutRun(Traversal(reqs, 1), server, 1) IN
         IF out.outcome.kind = "raise"
         THEN [fanout |-> out.sent, fanin |-> <<>>, submissions |-> out.sent,
               outcome |-> out.outcome]
         ELSE LET col == FanInRun(Traversal(reqs, 2), server, raise_exc, 1, <<>>)
              IN [fanout |-> out.sent, fanin |-> col.waited,
                  submissions |-> out.sent \o col.sent,
                  outcome |-> col.outcome]

InitIterable ==
    /\ ClientOff
    /\ NoHashing
    /\ NoEnvelope
    /\ NoSend
    /\ NoConstructor
    /\ NoShutdown
    /\ NoBatches
    /\ \E n \in 0..MaxIterable :
          /\ it_requests \in {Iterable(kind, [j \in 1..n |-> InputRequest(j)]) :
                                 kind \in {"list", "generator"}}
          /\ it_server \in [1..n -> Scripts]
    /\ it_raise \in BOOLEAN
    /\ run_quiet = None
    /\ run_loud = None

\* calculate_multiple_requests(url, it_requests, api_key, it_raise, quiet=True)
CallQuiet ==
    /\ it_requests # None /\ run_quiet = None
    /\ run_quiet' = calculate_multiple_requests(it_requests, it_raise, TRUE,
                                                it_server)
    /\ UNCHANGED <<it_requests, it_raise, it_server, run_loud, clientVars,
                   hashVars, envelopeVars, sendVars, ctorVars, shutdownVars,
                   batchesVars>>

\* calculate_multiple_requests(url, it_requests, api_key, it_raise, quiet=False)
CallLoud ==
    /\ it_requests # None /\ run_loud = None
    /\ run_loud' = calculate_multiple_requests(it_requests, it_raise, FALSE,
                                               it_server)
    /\ UNCHANGED <<it_requests, it_raise, it_server, run_quiet, clientVars,
                   hashVars, envelopeVars, sendVars, ctorVars, shutdownVars,
                   batchesVars>>

NextIterable == CallQuiet \/ CallLoud

SpecIterable == InitIterable /\ [][NextIterable]_vars

\* =================================================================
\* Properties
\* =================================================================
IsException(x) == x.type \in {"Exception", "ValueError", "AssertionError"}
IsDelivery(x) == x.type = "ResultDelivery"
IsPrefix(s, t) == Len(s) <= Len(t) /\ \A k \in DOMAIN s : s[k] = t[k]
Count(s, x) == Cardinality({k \in DOMAIN s : s[k] = x})

\* the most recent wait has ended; its frame (status, reply) and the
\* observer's counts of it are still in place
WaitOver == pc # "loop" /\ outcome # <<>> /\ outcome[Len(outcome)] # None
LastOutcome == outcome[Len(outcome)]

\* C1: a wait that got k non-terminal replies and then an INDATABASE reply
\* has made exactly k+1 submissions, makes no more, and returns the result
\* attached to that last reply.
C1_PollsUntilInDatabase ==
    /\ (pc = "loop" /\ status = INDATABASE) =>
          /\ polls = nonterminal + 1
          /\ ~LoopCondition(status)
    /\ (WaitOver /\ status = INDATABASE) =>
          /\ polls = nonterminal + 1
          /\ IsDelivery(LastOutcome)
          /\ LastOutcome = decompress_result_data(reply.result_delivery)
          /\ entry = WAIT => pc = "returned" /\ result = LastOutcome

C1_Witness ==
    /\ entry = WAIT /\ pc = "returned"
    /\ nonterminal >= 1 /\ polls = nonterminal + 1
    /\ IsDelivery(result)

\* C2: a wait whose reply has status CALCULATIONFAILED ends by raising an
\* error whose message contains the reply's info text (and is the bare
\* "Calculation failed: " text when there is no info); it returns no result.
C2_FailedReplyRaisesWithInfo ==
    (WaitOver /\ status = CALCULATIONFAILED) =>
        /\ IsException(LastOutcome)
        /\ Contains(LastOutcome.message, CalculationFailedPrefix)
        /\ IF reply.info = None
           THEN LastOutcome.message = CalculationFailedPrefix
           ELSE Contains(LastOutcome.message, reply.info.value)
        /\ entry = WAIT => pc = "raised" /\ exc = LastOutcome /\ result = None

C2_Witness ==
    /\ entry = WAIT /\ pc = "raised"
    /\ status = CALCULATIONFAILED /\ reply.info = Str(DiskFull)
    /\ nonterminal >= 1
    /\ Contains(exc.message, DiskFull)

\* C3 as claimed: after a reply with status CALCULATIONFAILED for a request,
\* nobody submits that request again.
C3_NeverSubmittedAfterFailedReply ==
    resubmitted = {} /\ repolled = {}

\* C3 as amended: after a wait got a CALCULATIONFAILED reply for a request,
\* neither that wait nor the batch coordinator submits the request again, and
\* within a wait only a non-terminal reply is followed by another submission.
\* (A fan-out reply is dropped unread: a request whose fan-out reply was
\* CALCULATIONFAILED is still submitted by its wait.)
C3_WaitNeverRetriesFailedReply ==
    /\ repolled = {}
    /\ polls <= nonterminal + 1
    /\ resubmitted \subseteq (fanout_failed \cap polled)

C3_Witness ==
    /\ entry = BATCH /\ pc = "returned" /\ N >= 2
    /\ requests[1] \in poll_failed
    /\ resubmitted # {}

\* C4: with raise_exceptions = False a call that got through its fan-out
\* returns a list of N entries: entry j is what the wait on requests[j] gave,
\* the delivered result of requests[j] or the captured error (the
\* "Calculation failed" error exactly when that wait got a CALCULATIONFAILED
\* reply), and every request, also after a failed one, has been polled.
C4_SuppressedFailuresKeepAlignment ==
    (entry = BATCH /\ ~raise_exceptions) =>
        /\ pc = "returned" =>
              /\ Len(results) = N
              /\ Len(outcome) = N
              /\ \A j \in 1..N :
                    /\ requests[j] \in polled
                    /\ results[j] = outcome[j]
                    /\ IsDelivery(results[j]) \/ IsException(results[j])
                    /\ IsDelivery(results[j]) =>
                          results[j].original_request = requests[j]
                    /\ requests[j] \in poll_failed <=>
                          /\ IsException(results[j])
                          /\ Contains(results[j].message, CalculationFailedPrefix)
              /\ error_count = Cardinality({j \in 1..N : IsException(results[j])})
        /\ pc = "raised" => polled = {} /\ wait_log = <<>>

C4_Witness ==
    /\ entry = BATCH /\ ~raise_exceptions /\ pc = "returned" /\ N = 3
    /\ IsDelivery(results[1])
    /\ requests[2] \in poll_failed /\ IsException(results[2])
    /\ IsDelivery(results[3])

\* C5 as claimed: with raise_exceptions = False no exception leaves
\* calculate_multiple_requests, whichever phase a send_request fails in, and
\* the returned list has N entries.
C5_SuppressionNeverPropagates ==
    (entry = BATCH /\ ~raise_exceptions) =>
        /\ pc # "raised"
        /\ pc = "returned" => Len(results) = N

\* C6: with raise_exceptions = True the first wait that raises ends the
\* call with that exception: no list is returned, and no later request is
\* waited on or polled; each later request was submitted once, by the fan-out.
C6_FirstFailureAborts ==
    (entry = BATCH /\ raise_exceptions) =>
        \A j \in 1..Len(outcome) :
            IsException(outcome[j]) =>
                /\ pc = "raised" /\ exc = outcome[j]
                /\ j = Len(outcome) /\ i = j
                /\ Len(results) = j - 1
                /\ Len(wait_log) = j
                /\ \A k \in (j + 1)..N :
                      /\ requests[k] \notin polled
                      /\ Count(sent_log, requests[k]) = 1

C6_Witness ==
    /\ entry = BATCH /\ raise_exceptions /\ pc = "raised" /\ N = 3
    /\ Len(outcome) = 2 /\ IsDelivery(outcome[1]) /\ IsException(outcome[2])
    /\ requests[2] \in poll_failed

\* C7: when the first wait is entered, the fan-out loop has submitted each
\* of the N requests exactly once.
C7_FanOutPrecedesFanIn ==
    (entry = BATCH /\ (wait_log # <<>> \/ polled # {})) =>
        /\ Len(sent_log) = N
        /\ \A k \in 1..N : Count(sent_log, requests[k]) = 1

C7_Witness ==
    /\ entry = BATCH /\ N >= 2
    /\ pc = "loop" /\ i = 1 /\ polls = 1 /\ polled = {requests[1]}

\* C8: the fan-out submits the requests in input order, the fan-in waits on
\* them in input order, and results[j] is what the wait on requests[j] gave,
\* whatever the order in which the server finishes the jobs.
C8_InputOrder ==
    entry = BATCH =>
        /\ IsPrefix(sent_log, requests)
        /\ IsPrefix(wait_log, requests)
        /\ Len(results) <= Len(outcome)
        /\ \A j \in 1..Len(results) :
              /\ results[j] = outcome[j]
              /\ IsDelivery(results[j]) =>
                    results[j].original_request = wait_log[j]

C8_Witness ==
    /\ entry = BATCH /\ pc = "returned" /\ N >= 2 /\ Len(results) = N
    /\ overtaken
    /\ \E j \in 2..N : requests[j] \in fanout_failed /\ IsDelivery(results[1])

\* ------------------------------------------------------------- hashing
\* a dict as the mapping it is, whatever the order of insertion
AsMapping(d) == {d[x] : x \in DOMAIN d}

\* dict equality in Python: the same keys with the same values
FieldsEqual(a, b) ==
    /\ a.simulation_config = b.simulation_config
    /\ a.providername = b.providername
    /\ a.guid = b.guid
    /\ AsMapping(a.required_result_files) = AsMapping(b.required_result_files)
    /\ AsMapping(a.input_files) = AsMapping(b.input_files)

\* the keys whose entry is in one of the two mappings only, or differs
EntriesDiffering(d, e) ==
    {kv[1] : kv \in (AsMapping(d) \ AsMapping(e)) \cup (AsMapping(e) \ AsMapping(d))}

FieldValuesDiffering(a, b) ==
    Cardinality({f \in {"simulation_config", "providername", "guid"} : a[f] # b[f]})
    + Cardinality(EntriesDiffering(a.required_result_files, b.required_result_files))
    + Cardinality(EntriesDiffering(a.input_files, b.input_files))

\* C9: two requests whose five fields are equal, the two dicts compared as
\* mappings whatever the order their entries were inserted in, have the same
\* get_hash().
C9_EqualFieldsEqualHash ==
    (hpc = "hashed" /\ FieldsEqual(r1, r2)) => h1 = h2

\* C10: two requests that differ in exactly one field value (one of the three
\* strings, or one entry of required_result_files or of input_files) are
\* serialised differently, so that their hashes differ; a different guid alone
\* gives a different hash.
C10_OneFieldValueChangesHash ==
    (hpc = "hashed" /\ FieldValuesDiffering(r1, r2) = 1) =>
        /\ to_json(r1) # to_json(r2)
        /\ h1 = get_hash(r1) /\ h2 = get_hash(r2)
        /\ h1 # h2

C10_Witness ==
    /\ hpc = "hashed"
    /\ FieldValuesDiffering(r1, r2) = 1
    /\ r1.guid # r2.guid
    /\ r1.required_result_files # <<>> /\ r1.input_files # <<>>
    /\ h1 # h2

\* ------------------------------------------------------- ResultDelivery
\* the raw state: not compressed, not encoded
Raw(o) == ~o.is_compressed /\ o.data_encoded = None /\ o.data # None

\* C11: in every state of a ResultDelivery reached from its construction by
\* compress_data, decompress_data, encode_data and decode_data calls, exactly
\* one of data and the encoded data is populated, never both and never neither.
C11_ExactlyOneRepresentation ==
    delivery # None =>
        ((delivery.data = None) # (delivery.data_encoded = None))

\* C12: encode_data on a ResultDelivery that was just encoded raises, and
\* decode_data on one that was just decoded, or was never encoded, raises.
C12_EncodeDecodeMisuseRaises ==
    /\ (called2 = "encode_data" /\ raised2 = None /\ called = "encode_data")
          => raised # None
    /\ (called2 = "decode_data" /\ raised2 = None /\ called = "decode_data")
          => raised # None
    /\ (called2 = "__init__" /\ called = "decode_data") => raised # None

\* C13: compress_data raises on a ResultDelivery whose is_compressed is true and
\* decompress_data raises on one whose is_compressed is false, both leaving it
\* as it was; a compress_data that succeeds leaves is_compressed true and a
\* decompress_data that succeeds leaves it false.
C13_CompressMisuseRaises ==
    /\ (called = "compress_data" /\ before.is_compressed) =>
          /\ raised # None /\ raised.type = "AssertionError"
          /\ delivery = before
    /\ (called = "decompress_data" /\ ~before.is_compressed) =>
          /\ raised # None /\ raised.type = "AssertionError"
          /\ delivery = before
    /\ (called = "compress_data" /\ raised = None) =>
          ~before.is_compressed /\ delivery.is_compressed
    /\ (called = "decompress_data" /\ raised = None) =>
          before.is_compressed /\ ~delivery.is_compressed

C13_Witness ==
    /\ called2 = "compress_data" /\ raised2 = None
    /\ called = "compress_data" /\ raised # None
    /\ delivery.is_compressed /\ delivery.data.items # <<>>

\* C14: from a raw ResultDelivery with contents D, encode_data then decode_data
\* leaves data equal to D, and compress_data then decompress_data leaves data
\* equal to D and is_compressed false.
C14_RoundTrips ==
    /\ (called2 = "encode_data" /\ called = "decode_data" /\ Raw(before2)) =>
          /\ raised2 = None /\ raised = None
          /\ delivery.data = before2.data
    /\ (called2 = "compress_data" /\ called = "decompress_data" /\ Raw(before2)) =>
          /\ raised2 = None /\ raised = None
          /\ delivery.data = before2.data
          /\ ~delivery.is_compressed

C14_Witness ==
    /\ called2 = "encode_data" /\ called = "decode_data" /\ Raw(before2)
    /\ \E k \in DOMAIN before2.data.items : Len(before2.data.items[k][2]) = 1
    /\ delivery.data = before2.data

\* ------------------------------------------------------ delivered results
\* C15: the ResultDelivery that request_time_series_and_wait_for_delivery
\* returns, and each ResultDelivery in the list calculate_multiple_requests
\* builds, is raw: neither encoded nor flagged is_compressed.
C15_DeliveredEnvelopeIsRaw ==
    /\ (entry = WAIT /\ pc = "returned") => Raw(result)
    /\ \A j \in 1..Len(results) : IsDelivery(results[j]) => Raw(results[j])

\* ---------------------------------------------------------- send_request
\* the RestReply that the body of a successful response makes
ReplyOf(response) ==
    [type |-> "RestReply",
     result_delivery |-> response.json.result_delivery,
     status |-> CHOOSE m \in CalculationStatus : m.value = response.json.status,
     request_hash |-> response.json.request_hash,
     info |-> response.json.info]

\* C16: a call of send_request makes exactly one network exchange; on a
\* response that is not a success it raises an error carrying the response
\* and returns no RestReply; on a success it returns a RestReply built from
\* the response body; it never retries.
C16_OneExchangePerCall ==
    send_calls >= 1 =>
        /\ send_posts = 1
        /\ IF ~send_server[1].ok
           THEN /\ send_out.kind = "raise"
                /\ Contains(send_out.exc.message, ResponseRepr)
           ELSE /\ send_out.kind = "return"
                /\ send_out.value = ReplyOf(send_server[1])

\* C16 as amended: as above, but on a success whose status value no
\* CalculationStatus member has, building the RestReply raises ValueError and
\* nothing is returned.
C16_OneExchangeReplyOrError ==
    send_calls >= 1 =>
        /\ send_posts = 1
        /\ IF ~send_server[1].ok
           THEN /\ send_out.kind = "raise"
                /\ send_out.exc.type = "Exception"
                /\ Contains(send_out.exc.message, ResponseRepr)
           ELSE IF send_server[1].json.status \in {m.value : m \in CalculationStatus}
           THEN /\ send_out.kind = "return"
                /\ send_out.value = ReplyOf(send_server[1])
           ELSE /\ send_out.kind = "raise"
                /\ send_out.exc.type = "ValueError"

C16_Witness ==
    /\ send_calls >= 1 /\ send_posts = 1
    /\ ~send_server[1].ok /\ send_server[2].ok
    /\ send_out.kind = "raise"

\* ------------------------------------------------------ errors and exits
TransportError == Exception("Exception", ReceivedErrorCodePrefix \o ResponseRepr)
NonTerminalValues == {UNKNOWN.value, INCALCULATION.value, CALCULATIONSTARTED.value}

\* C17: a transport error of send_request during polling ends the wait at
\* once: the error leaves the wait (and is the exception of a direct call), and
\* the wait is over, so that it submits no more.
C17_TransportErrorEndsWait ==
    (last_response # None /\ ~last_response.ok) =>
        /\ WaitOver
        /\ LastOutcome = TransportError
        /\ ~ENABLED WaitSend
        /\ entry = WAIT => (pc = "raised" /\ exc = TransportError)

C17_Witness ==
    /\ last_response # None /\ ~last_response.ok
    /\ polls >= 2 /\ nonterminal = polls - 1
    /\ entry = WAIT /\ pc = "raised"

\* C18: a reply of status integer 0, 1, 2, 3 or 4 is decoded to UNKNOWN,
\* INCALCULATION, INDATABASE, CALCULATIONSTARTED or CALCULATIONFAILED; a status
\* integer outside 0..4 raises when the reply is built, and the wait that
\* received it ends at once with that error and submits no more.
C18_StatusDecoding ==
    (last_response # None /\ last_response.ok) =>
        IF last_response.status \in 0..4
        THEN /\ reply # None
             /\ reply.status =
                   <<UNKNOWN, INCALCULATION, INDATABASE, CALCULATIONSTARTED,
                     CALCULATIONFAILED>>[last_response.status + 1]
             /\ reply.status.value = last_response.status
             /\ status = reply.status
        ELSE /\ WaitOver
             /\ LastOutcome.type = "ValueError"
             /\ ~ENABLED WaitSend
             /\ entry = WAIT => (pc = "raised" /\ exc = LastOutcome)

C18_Witness ==
    /\ last_response # None /\ last_response.ok
    /\ last_response.status \notin 0..4
    /\ polls >= 2 /\ reply.status = CALCULATIONSTARTED
    /\ WaitOver /\ LastOutcome.type = "ValueError"

C21_MappingFieldsValidated ==
    ctor_out # None =>
        IF isinstance_dict(ctor_args.required_result_files)
           /\ isinstance_dict(ctor_args.input_files)
        THEN /\ ctor_out.kind = "return"
             /\ ctor_out.value.type = "TimeSeriesRequest"
             /\ ctor_out.value.required_result_files
                    = ctor_args.required_result_files.items
             /\ ctor_out.value.input_files = ctor_args.input_files.items
        ELSE /\ ctor_out.kind = "raise"
             /\ ctor_out.exc.type = "RuntimeError"

C21_Witness ==
    /\ ctor_out # None
    /\ ctor_out.kind = "raise"
    /\ ctor_args.required_result_files = Dict(<<>>)
    /\ ctor_args.input_files = List(<<>>)

\* C22: a call of shutdown makes exactly one post, which carries the
\* Authorization header and no request; whatever the response, success or
\* not, the call returns None: it raises nothing and yields no RestReply, and
\* no calculation request is submitted by it
C22_ShutdownPostsOnceAndReturns ==
    shut_calls >= 1 =>
        /\ Len(shut_posted) = 1
        /\ shut_posted[1].headers = [Authorization |-> shut_key]
        /\ shut_posted[1].json = None
        /\ shut_out = Return(None)

C22_Witness ==
    /\ shut_calls >= 1 /\ ~shut_response.ok
    /\ shut_key = <<"k">>
    /\ shut_out.kind = "return"
    /\ send_calls = 0

\* ---------------------------------------------------------------- pacing
\* C23: a wait sleeps only after a reply of non-terminal status: after a
\* CALCULATIONFAILED reply, as after an INDATABASE reply, it has slept once per
\* non-terminal reply and no more
C23_SleepsOnlyAfterNonTerminal ==
    outcome # <<>> => sleeps = nonterminal

C25_OneBodyPerRequest ==
    /\ entry = BATCH =>
          /\ \A k \in DOMAIN sent_log :
                /\ PoolJson[sent_log[k]] = PoolJson[requests[k]]
                /\ PoolHash[sent_log[k]] = PoolHash[requests[k]]
          /\ \A k \in DOMAIN wait_log :
                /\ PoolJson[wait_log[k]] = PoolJson[requests[k]]
                /\ PoolHash[wait_log[k]] = PoolHash[requests[k]]
    /\ pc = "loop" =>
          /\ request = PoolJson[wait_log[Len(wait_log)]]
          /\ entry = WAIT => request = PoolJson[requests[1]]
    /\ polled \subseteq {wait_log[k] : k \in DOMAIN wait_log}

C25_Witness ==
    /\ entry = BATCH /\ N >= 2 /\ pc = "loop" /\ i = 2
    /\ polls = MaxPolls /\ nonterminal >= 1
    /\ requests[2] \in polled
    /\ sent_log[2] = wait_log[2]

\* C26: get_result on a reply: status INDATABASE returns the delivered
\* result, CALCULATIONSTARTED and INCALCULATION return None,
\* CALCULATIONFAILED raises an error that carries the info text, and UNKNOWN
\* raises the "Unknown status" error, although the polling loop goes on
\* polling on UNKNOWN
C26_GetResultByStatus ==
    /\ LoopCondition(UNKNOWN)
    /\ send_got # None =>
          LET r == send_out.value IN
          IF r.status = INDATABASE
          THEN /\ send_got.kind = "return"
               /\ IsDelivery(send_got.value)
               /\ send_got.value.original_request
                      = ParseRequest(RequestBody(send_arg))
               /\ \E p \in Payloads :
                      send_got.value.data \in {p, CompressEach(p)}
          ELSE IF r.status \in {CALCULATIONSTARTED, INCALCULATION}
          THEN send_got = Return(None)
          ELSE IF r.status = CALCULATIONFAILED
          THEN /\ send_got.kind = "raise"
               /\ Contains(send_got.exc.message, CalculationFailedPrefix)
               /\ r.info # None =>
                      Contains(send_got.exc.message, r.info.value)
          ELSE /\ r.status = UNKNOWN
               /\ send_got.kind = "raise"
               /\ send_got.exc.message = UnknownStatusText

C26_Witness ==
    /\ send_got # None
    /\ send_out.value.status = UNKNOWN
    /\ send_got.kind = "raise"

\* ------------------------------------------------- the encoded state
\* C28: after an encode_data that succeeded the data attribute is None and
\* the encoded mapping is the active one: is_encoded returns True, get_data
\* returns the encoded mapping and get_file_count its size, none of them
\* raising; after a decode_data that succeeded is_encoded returns False and
\* get_data returns the data attribute
C28_EncodedStateAnswers ==
    /\ (called = "encode_data" /\ raised = None) => delivery.data = None
    /\ (called2 = "encode_data" /\ raised2 = None) =>
          /\ called = "is_encoded" => returned = Return(TRUE)
          /\ called = "get_data" => returned = Return(delivery.data_encoded)
          /\ called = "get_file_count" =>
                returned = Return(Len(delivery.data_encoded.items))
    /\ (called2 = "decode_data" /\ raised2 = None) =>
          /\ called = "is_encoded" => returned = Return(FALSE)
          /\ called = "get_data" => returned = Return(delivery.data)

\* C29: compress_data and decompress_data raise on a ResultDelivery that was
\* just encoded: compressing comes before encoding and decoding before
\* decompressing
C29_NoCompressionWhileEncoded ==
    (/\ called2 = "encode_data" /\ raised2 = None
     /\ called \in {"compress_data", "decompress_data"})
        => raised # None

\* ------------------------------------------------------------ examples
\* C30: a call of calculate_multiple_hisim_requests_in_batches with M
\* configurations and a limit B passes them on in consecutive groups of at most
\* B, one group after the other, and ends by returning M results in the order
\* of the configurations
C30_BatchesReturnAllInOrder ==
    /\ \A g \in DOMAIN batches_log :
          /\ Len(batches_log[g]) <= max_simultaneous_requests
          /\ batches_log[g] = SubSeq(hisim_configs,
                                     (g - 1) * max_simultaneous_requests + 1,
                                     (g - 1) * max_simultaneous_requests
                                        + Len(batches_log[g]))
    /\ batches_pc \in {"off", "loop", "returned"}
    /\ batches_pc = "returned" =>
          /\ Len(all_results) = Len(hisim_configs)
          /\ \A k \in DOMAIN all_results :
                all_results[k].simulation_config = hisim_configs[k]

\* ------------------------------------------------------ progress reporting
\* C27: for the same requests, the same raise_exceptions and the same
\* answers of the server, the call with quiet=False makes the same submissions
\* in the same order as the call with quiet=True and ends as it does: with the
\* same returned list or the same raised error
C27_QuietChangesNothing ==
    (run_quiet # None /\ run_loud # None) =>
        /\ run_loud.submissions = run_quiet.submissions
        /\ run_loud.outcome = run_quiet.outcome

\* ------------------------------------------------- the is_compressed flag
\* the contents of every file are a zlib stream, or none is
AllCompressed(d) ==
    \A k \in DOMAIN d.items : decompress(d.items[k][2]).kind = "return"
NoneCompressed(d) ==
    \A k \in DOMAIN d.items : decompress(d.items[k][2]).kind = "raise"
FlagTruthful(o) ==
    IF o.is_compressed THEN AllCompressed(o.data) ELSE NoneCompressed(o.data)

\* C31: a compress_data, decompress_data, encode_data or decode_data call that
\* succeeds on a ResultDelivery whose is_compressed flag tells the truth about
\* its data leaves one whose flag tells the truth: the contents are zlib
\* streams exactly when is_compressed is true
C31_FlagTellsTruth ==
    (/\ called \in {"compress_data", "decompress_data", "encode_data",
                    "decode_data"}
     /\ raised = None
     /\ FlagTruthful(before))
        => FlagTruthful(delivery)

\* --------------------------------------------------- the final assertion
\* C32: the assertion "No time series was delivered" never fails: when the
\* polling loop is over the status of the last reply is terminal, get_result
\* returns a result or raises and never returns None, and every wait ends with
\* a result or with an error other than the assertion's
C32_AssertionNeverFails ==
    /\ (pc = "loop" /\ ~LoopCondition(status)) =>
          /\ status \in Terminal
          /\ get_result(reply) # Return(None)
    /\ \A k \in DOMAIN outcome :
          outcome[k] # None =>
              /\ IsDelivery(outcome[k]) \/ IsException(outcome[k])
              /\ outcome[k] # Exception("AssertionError", NoTimeSeriesText)
    /\ exc # Exception("AssertionError", NoTimeSeriesText)
    /\ (entry = WAIT /\ pc = "returned") => IsDelivery(result)

C32_Witness ==
    /\ entry = BATCH /\ Len(outcome) = 2
    /\ IsDelivery(outcome[1]) /\ IsException(outcome[2])
    /\ status = CALCULATIONFAILED /\ nonterminal >= 1

\* ------------------------------------------------------ rejected calls
\* C33: a compress_data, decompress_data, encode_data or decode_data call that
\* raises leaves the ResultDelivery as it was: data, the encoded data and
\* is_compressed are those from before the call
C33_RejectedCallChangesNothing ==
    (/\ called \in {"compress_data", "decompress_data", "encode_data",
                    "decode_data"}
     /\ raised # None)
        => /\ delivery.data = before.data
           /\ delivery.data_encoded = before.data_encoded
           /\ delivery.is_compressed = before.is_compressed

C33_Witness ==
    /\ called = "decode_data" /\ raised # None
    /\ raised.type = "AssertionError"
    /\ delivery.data.items # <<>> /\ delivery = before
    /\ called2 = "decompress_data" /\ raised2 # None

\* --------------------------------------------------- submission counts
\* every answer the server has is INDATABASE
AllInDatabase ==
    \A j \in DOMAIN it_server :
        \A k \in DOMAIN it_server[j] : it_server[j][k] = "indatabase"

\* the claim of C34 for one call
TwicePerRequest(run) ==
    (run # None /\ run.outcome.kind = "return") =>
        /\ \A j \in DOMAIN it_requests.items :
              Count(run.submissions, RequestBody(it_requests.items[j])) >= 2
        /\ AllInDatabase =>
              Len(run.submissions) = 2 * Len(it_requests.items)

\* C34: in a call of calculate_multiple_requests that returns, every request
\* was submitted at least twice, once in the fan-out and at least once by its
\* wait; when the server answers every submission with INDATABASE the call
\* makes exactly 2N submissions for N requests
C34_SubmissionCount ==
    TwicePerRequest(run_quiet) /\ TwicePerRequest(run_loud)

\* C35: a call of calculate_multiple_requests that gets through its fan-out
\* waits on exactly the requests it sent, in the same order, whether the
\* argument is a list or a generator that can be traversed only once; a call
\* that raises in the fan-in has waited on the first of them
C35_FanInCollectsFanOut ==
    \A run \in {run_quiet, run_loud} \ {None} :
        /\ run.outcome.kind = "return" => run.fanin = run.fanout
        /\ IsPrefix(run.fanin, run.fanout)

====
